---- MODULE Spec2Model ----
(***************************************************************************)
(* A model of melvin's on-disk label / PV header / metadata-area (MDA)     *)
(* engine (src/src/pvlabel.rs).  The device is a byte array; every         *)
(* operation is translated from the Rust code at byte granularity.         *)
(*                                                                         *)
(* Conventions.  A Rust slice buf[a..b] is Slice(buf, a, b); TLA+          *)
(* sequences are 1-indexed, so byte offset o of a buffer is element o+1.   *)
(* TLC integers are 32-bit signed, so a u32 that can take any value (a     *)
(* CRC) is carried as its four little-endian bytes <<b0, b1, b2, b3>>;     *)
(* offsets and sizes are carried as numbers (all < 2^31 in this model).    *)
(***************************************************************************)
EXTENDS Integers, Sequences, FiniteSets, TLC

(***************************************************************************)
(* Program constants (src/src/pvlabel.rs:36-40)                            *)
(***************************************************************************)
LABEL_SCAN_SECTORS == 4
ID_LEN == 32
SECTOR_SIZE == 512
MDA_HEADER_SIZE == 512
\* b"\x20\x4c\x56\x4d\x32\x20\x78\x5b\x35\x41\x25\x72\x30\x4e\x2a\x3e"
MDA_MAGIC == <<32, 76, 86, 77, 50, 32, 120, 91, 53, 65, 37, 114, 48, 78, 42, 62>>
\* b"LABELONE"
LABELONE == <<76, 65, 66, 69, 76, 79, 78, 69>>

(***************************************************************************)
(* Bounds of the model                                                     *)
(***************************************************************************)
\* write_metadata calls started in one behaviour
MaxCommits == 2
\* seqno values a submitted textmap may carry: 1..MaxSeqno
MaxSeqno == 2
\* bytes of a textmap's serialization after its seqno line: a small VG
\* description, and one larger than a one-sector ring
SmallBody == 29
LargeBody == 589
\* and one more than twice a one-sector ring
HugeBody == 1089

(***************************************************************************)
(* Byte buffers                                                            *)
(***************************************************************************)
Min(a, b) == IF a < b THEN a ELSE b

Zeros(n) == [i \in 1..n |-> 0]

\* Rust buf[lo..hi]
Slice(buf, lo, hi) == SubSeq(buf, lo + 1, hi)

\* copy `bytes` into `buf` starting at byte offset `at` (bytes past the end
\* of buf are dropped)
Overlay(buf, at, bytes) ==
    LET n == Min(Len(bytes), Len(buf) - at)
    IN IF n <= 0 THEN buf
       ELSE SubSeq(buf, 1, at) \o SubSeq(bytes, 1, n) \o SubSeq(buf, at + n + 1, Len(buf))

\* byteorder::LittleEndian::write_u64 of a number < 2^31
write_u64(n) ==
    <<n % 256, (n \div 256) % 256, (n \div 65536) % 256, n \div 16777216, 0, 0, 0, 0>>

\* byteorder::LittleEndian::read_u64 (the model's disks hold values < 2^31)
read_u64(b) == b[1] + 256 * b[2] + 65536 * b[3] + 16777216 * b[4]

\* byteorder::LittleEndian::write_u32 of a number < 2^31
write_u32(n) == <<n % 256, (n \div 256) % 256, (n \div 65536) % 256, n \div 16777216>>

\* byteorder::LittleEndian::read_u32 where the code does arithmetic on the value
read_u32(b) == b[1] + 256 * b[2] + 65536 * b[3] + 16777216 * b[4]

\* byteorder::LittleEndian::read_u32 of a checksum: the u32 as its byte image
read_crc(b) == <<b[1], b[2], b[3], b[4]>>

(***************************************************************************)
(* util::align_to and util::crc32_calc (src/util.rs is not part of the     *)
(* source tree at hand; both follow spec section 4.1)                      *)
(***************************************************************************)
align_to(num, align) == ((num + align - 1) \div align) * align

RECURSIVE XorBits(_, _, _)
XorBits(a, b, n) ==
    IF n = 0 THEN 0
    ELSE (((a % 2) + (b % 2)) % 2) + 2 * XorBits(a \div 2, b \div 2, n - 1)

XorNib == [a \in 0..15 |-> [b \in 0..15 |-> XorBits(a, b, 4)]]

XorByte == [a \in 0..255 |-> [b \in 0..255 |->
              XorNib[a \div 16][b \div 16] * 16 + XorNib[(a % 16)][(b % 16)]]]

Xor32(a, b) ==
    <<XorByte[a[1]][b[1]], XorByte[a[2]][b[2]], XorByte[a[3]][b[3]], XorByte[a[4]][b[4]]>>

Shr1(c) ==
    <<(c[1] \div 2) + (c[2] % 2) * 128, (c[2] \div 2) + (c[3] % 2) * 128,
      (c[3] \div 2) + (c[4] % 2) * 128, c[4] \div 2>>

Shr8(c) == <<c[2], c[3], c[4], 0>>

\* 0xEDB88320: the bit-reversed CRC-32 polynomial
CRC_POLY == <<32, 131, 184, 237>>
\* 0xF597A6CF: the fixed initial register value
INITIAL_CRC == <<207, 166, 151, 245>>

RECURSIVE CrcShift(_, _)
CrcShift(c, n) ==
    IF n = 0 THEN c
    ELSE CrcShift(IF c[1] % 2 = 1 THEN Xor32(Shr1(c), CRC_POLY) ELSE Shr1(c), n - 1)

CRCTAB == [i \in 0..255 |-> CrcShift(<<i, 0, 0, 0>>, 8)]

CrcByte(crc, b) == Xor32(Shr8(crc), CRCTAB[XorByte[crc[1]][b]])

\* the register after bytes lo..hi of buf; the left half is evaluated
\* before the right half is entered
RECURSIVE CrcRange(_, _, _, _)
CrcRange(crc, buf, lo, hi) ==
    IF lo > hi THEN crc
    ELSE IF lo = hi THEN CrcByte(crc, buf[lo])
    ELSE LET mid == (lo + hi) \div 2
             left == CrcRange(crc, buf, lo, mid)
         IN IF Len(left) = 4 THEN CrcRange(left, buf, mid + 1, hi) ELSE left

\* no final inversion: the register itself is the checksum
crc32_calc(buf) == CrcRange(INITIAL_CRC, buf, 1, Len(buf))

(***************************************************************************)
(* Results.  A Rust io::Result is [kind |-> "Ok", val |-> v] or            *)
(* [kind |-> "Err", val |-> message]; a failed assert! is kind "Panic";   *)
(* `continue` in a loop over the metadata areas is kind "Skip".            *)
(***************************************************************************)
Ok(v) == [kind |-> "Ok", val |-> v]
Err(msg) == [kind |-> "Err", val |-> msg]
Panic(msg) == [kind |-> "Panic", val |-> msg]
Skip == [kind |-> "Skip", val |-> "continue"]

(***************************************************************************)
(* parser::textmap_to_buf and parser::buf_to_textmap (src/parser.rs is not *)
(* part of the source tree at hand).  A textmap is modelled by what the    *)
(* MDA engine can observe of it: the VG's seqno and the amount of text the *)
(* rest of the VG description serializes to.  The serialization is the     *)
(* line "seqno = <digit>\n" followed by `body` bytes of text.              *)
(***************************************************************************)
Maps == [seqno : 1..MaxSeqno, body : {SmallBody, LargeBody}]

\* "seqno = "
SeqnoKey == <<115, 101, 113, 110, 111, 32, 61, 32>>

BodyByte(j) == IF j % 16 = 15 THEN 10 ELSE 97 + (j % 16)

textmap_to_buf(map) ==
    SeqnoKey \o <<48 + map.seqno, 10>> \o [j \in 1..map.body |-> BodyByte(j - 1)]

buf_to_textmap(buf) ==
    LET n == Len(buf)
    IN IF n < 11 THEN Err("parse error")
       ELSE IF Slice(buf, 0, 8) # SeqnoKey THEN Err("parse error")
       ELSE IF ~(buf[9] \in 48..57 /\ buf[10] = 10) THEN Err("parse error")
       ELSE IF buf[n] # 0 THEN Err("parse error")
       ELSE IF \E j \in 1..(n - 11) : buf[10 + j] # BodyByte(j - 1) THEN Err("parse error")
       ELSE Ok([seqno |-> buf[9] - 48, body |-> n - 11])

\* what write_metadata puts on disk for a map: the serialization and one NUL
TextOf(map) == textmap_to_buf(map) \o <<0>>

(***************************************************************************)
(* std::fs::File on the device: absolute reads and writes                  *)
(***************************************************************************)
\* seek(off) then read(buf of n bytes): short at the end of the device
file_read(dev, off, n) == Slice(dev, off, Min(off + n, Len(dev)))

\* seek(off) then write_all(bytes)
file_write(dev, off, bytes) == Overlay(dev, off, bytes)

(***************************************************************************)
(* LabelHeader (src/src/pvlabel.rs:42-95)                                  *)
(***************************************************************************)
\* the sector a LabelHeader serializes to (LabelHeader::write builds the
\* sector from id, sector, offset and label, and stores the CRC of bytes
\* 20..512 at 16..20); `rest` is what follows the 32 label bytes
LabelSector(lh, rest) ==
    LET body == write_u32(lh.offset - lh.sector * SECTOR_SIZE) \o lh.label
                \o rest \o Zeros(SECTOR_SIZE - 32 - Len(rest))
    IN lh.id \o write_u64(lh.sector) \o crc32_calc(body) \o body

RECURSIVE LabelScan(_, _)
LabelScan(buf, x) ==
    IF x >= LABEL_SCAN_SECTORS THEN Err("Label not found")
    ELSE LET sec_buf == Slice(buf, x * SECTOR_SIZE, x * SECTOR_SIZE + SECTOR_SIZE)
         IN IF Slice(sec_buf, 0, 8) = LABELONE
            THEN LET crc == read_crc(Slice(sec_buf, 16, 20))
                     \* computed and compared, but the branch taken on a
                     \* mismatch is empty (lines 57-58)
                     mismatch == crc # crc32_calc(Slice(sec_buf, 20, SECTOR_SIZE))
                     sector == read_u64(Slice(sec_buf, 8, 16))
                 IN IF sector # x
                    THEN Err("Sector field should equal sector count")
                    ELSE Ok([id |-> Slice(sec_buf, 0, 8),
                             sector |-> sector,
                             crc |-> crc,
                             offset |-> read_u32(Slice(sec_buf, 20, 24)) + x * SECTOR_SIZE,
                             label |-> Slice(sec_buf, 24, 32)])
            ELSE LabelScan(buf, x + 1)

LabelHeader_from_buf(buf) == LabelScan(buf, 0)

(***************************************************************************)
(* PvArea lists and PvHeader (src/src/pvlabel.rs:97-264)                   *)
(***************************************************************************)
RECURSIVE iter_pv_area(_)
iter_pv_area(buf) ==
    LET off == read_u64(Slice(buf, 0, 8))
        size == read_u64(Slice(buf, 8, 16))
    IN IF off = 0 THEN <<>>
       ELSE <<[offset |-> off, size |-> size]>> \o iter_pv_area(Slice(buf, 16, Len(buf)))

PvHeader_from_buf(buf) ==
    LET da_buf == Slice(buf, ID_LEN + 8, Len(buf))
        da_vec == iter_pv_area(da_buf)
        md_buf == Slice(da_buf, (Len(da_vec) + 1) * 16, Len(da_buf))
        md_vec == iter_pv_area(md_buf)
        ext_buf == Slice(md_buf, (Len(md_vec) + 1) * 16, Len(md_buf))
        ext_version == read_u32(Slice(ext_buf, 0, 4))
    IN [uuid |-> Slice(buf, 0, ID_LEN),
        size |-> read_u64(Slice(buf, ID_LEN, ID_LEN + 8)),
        ext_version |-> ext_version,
        ext_flags |-> IF ext_version # 0 THEN read_u32(Slice(ext_buf, 4, 8)) ELSE 0,
        data_areas |-> da_vec,
        metadata_areas |-> md_vec,
        bootloader_areas |-> IF ext_version # 0
                             THEN iter_pv_area(Slice(ext_buf, 8, Len(ext_buf)))
                             ELSE <<>>]

find_in_dev(dev) ==
    LET buf == file_read(dev, 0, LABEL_SCAN_SECTORS * SECTOR_SIZE)
        label_header == LabelHeader_from_buf(buf)
    IN IF label_header.kind # "Ok" THEN label_header
       ELSE Ok(PvHeader_from_buf(Slice(buf, label_header.val.offset, Len(buf))))

(***************************************************************************)
(* RawLocn and the MDA header (src/src/pvlabel.rs:135-174, 266-280,        *)
(* 390-428)                                                                *)
(***************************************************************************)
\* Option<RawLocn>: None is present = FALSE
NoRawLocn ==
    [present |-> FALSE, offset |-> 0, size |-> 0, checksum |-> <<0, 0, 0, 0>>,
     ignored |-> FALSE]

\* RawLocnIter::next on the raw_locn array
raw_locn_next(buf) ==
    LET off == read_u64(Slice(buf, 0, 8))
        size == read_u64(Slice(buf, 8, 16))
        checksum == read_crc(Slice(buf, 16, 20))
        flags == read_u32(Slice(buf, 20, 24))
    IN IF off = 0 THEN NoRawLocn
       ELSE [present |-> TRUE, offset |-> off, size |-> size, checksum |-> checksum,
             ignored |-> (flags % 2) = 1]

get_rlocn0(buf) == raw_locn_next(Slice(buf, 40, Len(buf)))

set_rlocn0(buf, rl) ==
    Overlay(buf, 40,
            write_u64(rl.offset) \o write_u64(rl.size) \o rl.checksum
            \o write_u32(IF rl.ignored THEN 1 ELSE 0))

read_mda_header(area, dev) ==
    IF ~(area.size > MDA_HEADER_SIZE) THEN Panic("assert area.size > MDA_HEADER_SIZE")
    ELSE LET hdr == Overlay(Zeros(MDA_HEADER_SIZE), 0,
                            file_read(dev, area.offset, MDA_HEADER_SIZE))
         IN IF read_crc(Slice(hdr, 0, 4)) # crc32_calc(Slice(hdr, 4, MDA_HEADER_SIZE))
            THEN Err("MDA header checksum failure")
            ELSE IF Slice(hdr, 4, 20) # MDA_MAGIC
            THEN Err("doesn't match MDA_MAGIC")
            ELSE IF read_u32(Slice(hdr, 20, 24)) # 1
            THEN Err("Bad version, expected 1")
            ELSE Ok(hdr)

\* the sector write_mda_header writes: hdr with its CRC recomputed
mda_header_sector(hdr) == Overlay(hdr, 0, crc32_calc(Slice(hdr, 4, Len(hdr))))

write_mda_header(area, hdr, dev) == file_write(dev, area.offset, mda_header_sector(hdr))

(***************************************************************************)
(* PvHeader::read_metadata (src/src/pvlabel.rs:282-320)                    *)
(***************************************************************************)
\* lines 300-310: the buffer the record is assembled in
read_text(area, rl, dev) ==
    LET first_read == Min(area.size - rl.offset, rl.size)
        text1 == Overlay(Zeros(rl.size), 0,
                         file_read(dev, area.offset + rl.offset, first_read))
    IN IF first_read # rl.size
       THEN \* the second read fills text[rl.size - first_read ..]
            Overlay(text1, rl.size - first_read,
                    file_read(dev, area.offset + MDA_HEADER_SIZE, first_read))
       ELSE text1

\* one iteration of the loop without the test of lines 312-314
read_area_unchecked(area, dev) ==
    LET hdr == read_mda_header(area, dev)
    IN IF hdr.kind # "Ok" THEN hdr
       ELSE LET rl == get_rlocn0(hdr.val)
            IN IF ~rl.present THEN Skip
               ELSE IF rl.ignored THEN Skip
               ELSE buf_to_textmap(read_text(area, rl, dev))

\* one iteration of the loop over metadata_areas
read_area(area, dev) ==
    LET hdr == read_mda_header(area, dev)
    IN IF hdr.kind # "Ok" THEN hdr
       ELSE LET rl == get_rlocn0(hdr.val)
            IN IF ~rl.present THEN Skip
               ELSE IF rl.ignored THEN Skip
               ELSE LET text == read_text(area, rl, dev)
                    IN IF rl.checksum # crc32_calc(text)
                       THEN Err("MDA text checksum failure")
                       ELSE buf_to_textmap(text)

RECURSIVE read_areas(_, _, _)
read_areas(areas, i, dev) ==
    IF i > Len(areas) THEN Err("No valid metadata found")
    ELSE LET r == read_area(areas[i], dev)
         IN IF r.kind = "Skip" THEN read_areas(areas, i + 1, dev) ELSE r

read_metadata(pvheader, dev) == read_areas(pvheader.metadata_areas, 1, dev)

(***************************************************************************)
(* PvHeader::write_metadata (src/src/pvlabel.rs:322-388): the values one   *)
(* iteration computes before it writes                                     *)
(***************************************************************************)
\* lines 332-340
write_rlocn(hdr) ==
    LET rl == get_rlocn0(hdr)
    IN IF ~rl.present
       THEN [present |-> TRUE, offset |-> MDA_HEADER_SIZE, size |-> 0,
             checksum |-> <<0, 0, 0, 0>>, ignored |-> FALSE]
       ELSE rl

\* lines 351-355
next_start_off(rl, area) ==
    Min(MDA_HEADER_SIZE, align_to(rl.offset + rl.size, SECTOR_SIZE) % area.size)

\* line 356
tail_space_of(start, area) == area.size - start

\* lines 361-368: the bytes of the first write_all (none when tail_space = 0)
first_part(text, tail) == Slice(text, 0, Min(tail, Len(text)))

\* lines 376-382
new_rlocn(start, text, rl) ==
    [present |-> TRUE, offset |-> start, size |-> Len(text),
     checksum |-> crc32_calc(text), ignored |-> rl.ignored]

\* lines 329-384 for one metadata area when every I/O succeeds: the device
\* write_metadata leaves behind
commit_area(area, map, dev) ==
    LET h == read_mda_header(area, dev).val
        rl == write_rlocn(h)
        text == TextOf(map)
        start == next_start_off(rl, area)
        part == first_part(text, tail_space_of(start, area))
        dev1 == file_write(dev, area.offset + start, part)
        dev2 == IF Len(part) # Len(text)
                THEN file_write(dev1, area.offset + MDA_HEADER_SIZE,
                                Slice(text, Len(part), Len(text)))
                ELSE dev1
    IN write_mda_header(area, set_rlocn0(h, new_rlocn(start, text, rl)), dev2)

(***************************************************************************)
(* A freshly created PV (spec section 3, Lifecycle): the label in sector   *)
(* 1, the PV header behind it, and one MDA header per metadata area with   *)
(* no live raw_locn.  PV creation is not part of the source tree at hand;  *)
(* the label sector is laid out as LabelHeader::write lays it out.         *)
(***************************************************************************)
\* the first metadata area starts right behind the label scan sectors
MdaBase == LABEL_SCAN_SECTORS * SECTOR_SIZE

RECURSIVE AreasAt(_, _)
AreasAt(off, sizes) ==
    IF sizes = <<>> THEN <<>>
    ELSE <<[offset |-> off, size |-> Head(sizes)]>> \o AreasAt(off + Head(sizes), Tail(sizes))

RECURSIVE AreaListBytes(_)
AreaListBytes(areas) ==
    IF areas = <<>> THEN Zeros(16)
    ELSE write_u64(Head(areas).offset) \o write_u64(Head(areas).size)
         \o AreaListBytes(Tail(areas))

RECURSIVE SumSizes(_)
SumSizes(sizes) == IF sizes = <<>> THEN 0 ELSE Head(sizes) + SumSizes(Tail(sizes))

\* ID_LEN bytes of 'A'
PvUuid == [i \in 1..ID_LEN |-> 65]

\* "LVM2 001"
LabelType == <<76, 86, 77, 50, 32, 48, 48, 49>>

PvHeaderBytes(areas, devsize) ==
    PvUuid \o write_u64(devsize)
    \o AreaListBytes(<<[offset |-> devsize, size |-> 0]>>)
    \o AreaListBytes(areas)
    \o write_u32(0) \o write_u32(0)

\* an MDA header with no raw_locn, or with an ignored raw_locn 0
FreshMdaHeader(area, ignored) ==
    LET hdr == Zeros(4) \o MDA_MAGIC \o write_u32(1) \o write_u64(area.offset)
               \o write_u64(area.size) \o Zeros(MDA_HEADER_SIZE - 40)
    IN mda_header_sector(
           IF ignored
           THEN set_rlocn0(hdr, [present |-> TRUE, offset |-> MDA_HEADER_SIZE, size |-> 0,
                                 checksum |-> <<0, 0, 0, 0>>, ignored |-> TRUE])
           ELSE hdr)

\* an MDA as the LVM tools leave it with `text` committed in the last sector
\* of its ring: the text runs to the end of the area and continues behind
\* the header sector (spec section 4.4, wrap-around write)
WrappedMda(area, text) ==
    LET off == area.size - SECTOR_SIZE
        rl == [present |-> TRUE, offset |-> off, size |-> Len(text),
               checksum |-> crc32_calc(text), ignored |-> FALSE]
        hdr == Zeros(4) \o MDA_MAGIC \o write_u32(1) \o write_u64(area.offset)
               \o write_u64(area.size) \o Zeros(MDA_HEADER_SIZE - 40)
        ring == Overlay(Overlay(Zeros(area.size - MDA_HEADER_SIZE),
                                off - MDA_HEADER_SIZE, Slice(text, 0, SECTOR_SIZE)),
                        0, Slice(text, SECTOR_SIZE, Len(text)))
    IN mda_header_sector(set_rlocn0(hdr, rl)) \o ring

RECURSIVE MdaBytes(_, _, _)
MdaBytes(areas, i, l) ==
    IF i > Len(areas) THEN <<>>
    ELSE (IF i \in l.wrapped
          THEN WrappedMda(areas[i], TextOf([seqno |-> 1, body |-> LargeBody]))
          ELSE FreshMdaHeader(areas[i], i \in l.ign)
               \o Zeros(areas[i].size - MDA_HEADER_SIZE))
         \o MdaBytes(areas, i + 1, l)

FormatDevice(l) ==
    LET areas == AreasAt(MdaBase, l.sizes)
        devsize == MdaBase + SumSizes(l.sizes)
        lh == [id |-> LABELONE, sector |-> 1, offset |-> SECTOR_SIZE + 32,
               label |-> LabelType]
    IN Zeros(SECTOR_SIZE)
       \o LabelSector(lh, PvHeaderBytes(areas, devsize))
       \o Zeros(2 * SECTOR_SIZE)
       \o MdaBytes(areas, 1, l)

\* the PVs of the model: the MDA sizes, the MDAs whose raw_locn 0 is
\* ignored, and the MDAs that already hold a record that wraps
Layouts ==
    { [sizes |-> <<2 * SECTOR_SIZE>>, ign |-> {}, wrapped |-> {}],
      [sizes |-> <<3 * SECTOR_SIZE>>, ign |-> {}, wrapped |-> {}],
      [sizes |-> <<3 * SECTOR_SIZE>>, ign |-> {}, wrapped |-> {1}],
      [sizes |-> <<2 * SECTOR_SIZE, 2 * SECTOR_SIZE>>, ign |-> {}, wrapped |-> {}],
      [sizes |-> <<2 * SECTOR_SIZE, 2 * SECTOR_SIZE>>, ign |-> {1}, wrapped |-> {}] }

(***************************************************************************)
(* The VG model and its extent allocator (src/src/vg.rs).  A               *)
(* BTreeMap<K, V> is a function whose domain is the set of its keys; it is *)
(* iterated in ascending key order.  PV and LV names are numbered in their *)
(* string order: PV 1 is "pv1", LV 2 is "lv2".                             *)
(***************************************************************************)
\* PVs a VG of the model may hold, and LV names new_linear_lv is called with
MaxPv == 2
MaxLv == 4
\* largest extent count new_linear_lv is called with (the smallest is 0)
MaxReq == 3
\* largest pe_count of a PV of the model
MaxPe == 6

PvNames == 1..MaxPv
LvNames == 1..MaxLv

\* BTreeMap::new()
EmptyMap == [k \in {} |-> 0]

\* BTreeMap::insert: an existing key is overwritten
MapInsert(m, k, v) == [x \in (DOMAIN m) \cup {k} |-> IF x = k THEN v ELSE m[x]]

\* the first key of a BTreeMap iteration
FirstKey(S) == CHOOSE x \in S : \A y \in S : x <= y

\* lv::LV::used_extents (src/lv.rs is not part of the source tree at hand):
\* the sum of extent_count over the LV's segments
RECURSIVE SumSegments(_, _)
SumSegments(segments, i) ==
    IF i > Len(segments) THEN 0
    ELSE segments[i].extent_count + SumSegments(segments, i + 1)

used_extents(lv) == SumSegments(lv.segments, 1)

RECURSIVE SumLvs(_, _)
SumLvs(lvs, names) ==
    IF names = {} THEN 0
    ELSE LET n == FirstKey(names)
         IN used_extents(lvs[n]) + SumLvs(lvs, names \ {n})

extents_in_use(v) == SumLvs(v.lvs, DOMAIN v.lvs)

RECURSIVE SumPvs(_, _)
SumPvs(pvs, names) ==
    IF names = {} THEN 0
    ELSE LET n == FirstKey(names)
         IN pvs[n].pe_count + SumPvs(pvs, names \ {n})

extents(v) == SumPvs(v.pvs, DOMAIN v.pvs)

\* u64 subtraction: when extents_in_use exceeds extents a build with
\* overflow checks panics and a build without them wraps to 2^64 - val
extents_free(v) ==
    IF extents(v) >= extents_in_use(v)
    THEN {Ok(extents(v) - extents_in_use(v))}
    ELSE {Panic("attempt to subtract with overflow"),
          [kind |-> "Wrapped", val |-> extents_in_use(v) - extents(v)]}

\* used_areas, innermost loop: every stripe of a segment is entered under
\* its start with the segment's extent_count
RECURSIVE UsedStripes(_, _, _, _)
UsedStripes(used_map, stripes, i, extent_count) ==
    IF i > Len(stripes) THEN used_map
    ELSE LET pvname == stripes[i][1]
             start == stripes[i][2]
             entry == IF pvname \in DOMAIN used_map THEN used_map[pvname] ELSE EmptyMap
         IN UsedStripes(MapInsert(used_map, pvname, MapInsert(entry, start, extent_count)),
                        stripes, i + 1, extent_count)

RECURSIVE UsedSegments(_, _, _)
UsedSegments(used_map, segments, i) ==
    IF i > Len(segments) THEN used_map
    ELSE UsedSegments(UsedStripes(used_map, segments[i].stripes, 1,
                                  segments[i].extent_count),
                      segments, i + 1)

RECURSIVE UsedLvs(_, _, _)
UsedLvs(used_map, lvs, names) ==
    IF names = {} THEN used_map
    ELSE LET n == FirstKey(names)
         IN UsedLvs(UsedSegments(used_map, lvs[n].segments, 1), lvs, names \ {n})

used_areas(v) == UsedLvs(EmptyMap, v.lvs, DOMAIN v.lvs)

\* the end-of-PV entry one extent behind the PV
end_marker_behind(pv) == pv.pe_count + 1

\* the end-of-PV entry free_areas adds to a PV's used map before the fold
end_marker(pv) == pv.pe_count

\* free_areas, the fold over one PV's area map: the free ranges found
RECURSIVE FoldAreas(_, _, _, _)
FoldAreas(area_map, keys, prev_end, free) ==
    IF keys = {} THEN free
    ELSE LET start == FirstKey(keys)
             len == area_map[start]
         IN FoldAreas(area_map, keys \ {start}, start + len,
                      IF prev_end < start
                      THEN MapInsert(free, prev_end, start - prev_end)
                      ELSE free)

RECURSIVE FreePvs(_, _, _, _)
FreePvs(free_map, used_map, names, v) ==
    IF names = {} THEN Ok(free_map)
    ELSE LET pvname == FirstKey(names)
         IN IF pvname \notin DOMAIN v.pvs
            THEN Panic("area map name refers to nonexistent PV")
            ELSE LET area_map == MapInsert(used_map[pvname], end_marker(v.pvs[pvname]), 0)
                     free == FoldAreas(area_map, DOMAIN area_map, 0, EmptyMap)
                 IN FreePvs(IF free = EmptyMap THEN free_map
                            ELSE MapInsert(free_map, pvname, free),
                            used_map, names \ {pvname}, v)

\* Ok(the free map), or the panic of `expect`
free_areas(v) == FreePvs(EmptyMap, used_areas(v), DOMAIN used_areas(v), v)

\* Option<(pvname, start)>
NoArea == [found |-> FALSE, pv |-> 0, start |-> 0]

\* line 56 without the length test
fits_always(len, extent_size) == TRUE

\* line 56
fits(len, extent_size) == len >= extent_size

\* lines 55-60: the inner loop stops at the first range that fits
RECURSIVE scan_areas(_, _, _, _, _)
scan_areas(contig_area, pvname, areas, keys, extent_size) ==
    IF keys = {} THEN contig_area
    ELSE LET start == FirstKey(keys)
         IN IF fits(areas[start], extent_size)
            THEN [found |-> TRUE, pv |-> pvname, start |-> start]
            ELSE scan_areas(contig_area, pvname, areas, keys \ {start}, extent_size)

\* lines 54-61: the outer loop runs over every PV of the free map
RECURSIVE scan_pvs(_, _, _, _)
scan_pvs(contig_area, free_map, names, extent_size) ==
    IF names = {} THEN contig_area
    ELSE LET pvname == FirstKey(names)
         IN scan_pvs(scan_areas(contig_area, pvname, free_map[pvname],
                                DOMAIN free_map[pvname], extent_size),
                     free_map, names \ {pvname}, extent_size)

\* lines 69-85 (id, status, flags, creation_host and creation_time take no
\* part in the allocation and are left out)
new_lv(name, pv_with_area, area_start, extent_size) ==
    [name |-> name,
     segments |-> <<[name |-> "segment1",
                     start_extent |-> area_start,
                     extent_count |-> extent_size,
                     ty |-> "striped",
                     stripes |-> << <<pv_with_area, area_start>> >>]>>]

\* line 49 without the test
lv_exists_never(v, name) == FALSE

\* line 49
lv_exists(v, name) == name \in DOMAIN v.lvs

\* the result of new_linear_lv and the VG it leaves behind
new_linear_lv(v, name, extent_size) ==
    IF lv_exists(v, name)
    THEN [res |-> Err("LV already exists"), vg |-> v]
    ELSE LET fa == free_areas(v)
         IN IF fa.kind # "Ok" THEN [res |-> fa, vg |-> v]
            ELSE LET contig_area == scan_pvs(NoArea, fa.val, DOMAIN fa.val, extent_size)
                 IN IF ~contig_area.found
                    THEN [res |-> Err("no contiguous area for new LV"), vg |-> v]
                    ELSE [res |-> Ok("unit"),
                          vg |-> [v EXCEPT !.lvs =
                                     MapInsert(v.lvs, name,
                                               new_lv(name, contig_area.pv,
                                                      contig_area.start, extent_size))]]

\* an LV of one striped segment with one stripe, as the metadata of a VG
\* holds it
LinearLv(name, pvname, start, count) == new_lv(name, pvname, start, count)

NoVG == [pvs |-> EmptyMap, lvs |-> EmptyMap]
NoCall == [name |-> 0, extent_size |-> 0, kind |-> "None", val |-> "none"]

\* the valid VGs the allocator starts from
VGs ==
    { \* one PV, no LV
      [pvs |-> (1 :> [pe_count |-> 5]), lvs |-> EmptyMap],
      \* one PV, one LV at its start
      [pvs |-> (1 :> [pe_count |-> 4]), lvs |-> (1 :> LinearLv(1, 1, 0, 1))],
      \* one PV with two holes of two extents
      [pvs |-> (1 :> [pe_count |-> 6]),
       lvs |-> (1 :> LinearLv(1, 1, 0, 1)) @@ (2 :> LinearLv(2, 1, 3, 1))],
      \* two PVs, an LV on each
      [pvs |-> (1 :> [pe_count |-> 4]) @@ (2 :> [pe_count |-> 4]),
       lvs |-> (1 :> LinearLv(1, 1, 0, 1)) @@ (2 :> LinearLv(2, 2, 0, 1))],
      \* two PVs, the second without an LV
      [pvs |-> (1 :> [pe_count |-> 4]) @@ (2 :> [pe_count |-> 4]),
       lvs |-> (1 :> LinearLv(1, 1, 0, 1))] }

(***************************************************************************)
(* State                                                                   *)
(***************************************************************************)
VARIABLES
    disk,       \* the block device, a sequence of bytes
    pvh,        \* the PvHeader the caller holds (from find_in_dev)
    pc,         \* where write_metadata stands: "idle" between calls
    cur,        \* write_metadata: index of the metadata area of this iteration
    wmap,       \* write_metadata: the textmap being written
    hdr,        \* write_metadata: the MDA header read in this iteration
    start_off,  \* write_metadata: start_off of this iteration
    written,    \* write_metadata: `written` of this iteration
    ret,        \* what the last finished call returned
    events,     \* history: the device I/O issued by the current write_metadata
    lastOk,     \* history: the textmap of the last write_metadata that returned Ok
    before,     \* history: what each MDA read as when the current write began
    commits,    \* history: write_metadata calls started
    vg,         \* the VG the allocator works on
    vgprev,     \* history: the VG before the last new_linear_lv call
    vgcall      \* history: the last new_linear_lv call and its result

vars == <<disk, pvh, pc, cur, wmap, hdr, start_off, written, ret, events, lastOk,
          before, commits, vg, vgprev, vgcall>>

vgvars == <<vg, vgprev, vgcall>>

NoMap == [seqno |-> 0, body |-> 0]
\* ret also names the call's textmap and the metadata area its loop stood at
NoRet == [op |-> "none", kind |-> "None", val |-> "none", area |-> 0, map |-> NoMap]
Ret(op, r, i, map) == [op |-> op, kind |-> r.kind, val |-> r.val, area |-> i, map |-> map]

\* one device I/O: its kind, the metadata area, the offset in the area and
\* the number of bytes
Io(kind, i, off, n) == [io |-> kind, area |-> i, off |-> off, len |-> n]

Areas == pvh.metadata_areas
Area == Areas[cur]
Text == TextOf(wmap)

Init ==
    /\ \E l \in Layouts : disk = FormatDevice(l)
    /\ pvh = find_in_dev(disk).val
    /\ pc = "idle"
    /\ cur = 0
    /\ wmap = NoMap
    /\ hdr = <<>>
    /\ start_off = 0
    /\ written = 0
    /\ ret = NoRet
    /\ events = <<>>
    /\ lastOk = NoMap
    /\ before = <<>>
    /\ commits = 0
    /\ vg = NoVG
    /\ vgprev = NoVG
    /\ vgcall = NoCall

(***************************************************************************)
(* write_metadata, one action per device I/O                               *)
(***************************************************************************)
\* the call returns r: locals are dropped
Return(r) ==
    /\ pc' = "idle"
    /\ ret' = Ret("write", r, cur, wmap)
    /\ lastOk' = IF r.kind = "Ok" THEN wmap ELSE lastOk
    /\ cur' = 0
    /\ wmap' = NoMap
    /\ hdr' = <<>>
    /\ start_off' = 0
    /\ written' = 0

\* the loop moves to the next metadata area, or ends and the call returns Ok
NextArea ==
    IF cur < Len(Areas)
    THEN /\ pc' = "read_hdr"
         /\ cur' = cur + 1
         /\ hdr' = <<>>
         /\ start_off' = 0
         /\ written' = 0
         /\ UNCHANGED <<wmap, ret, lastOk>>
    ELSE Return(Ok("unit"))

\* lines 323-328: the device is opened and the loop is entered
WriteMetadata(map) ==
    /\ pc = "idle"
    /\ commits < MaxCommits
    /\ commits' = commits + 1
    /\ events' = <<>>
    /\ before' = [i \in 1..Len(Areas) |-> read_area(Areas[i], disk)]
    /\ pc' = "read_hdr"
    /\ cur' = 1
    /\ wmap' = map
    /\ ret' = [op |-> "write", kind |-> "Running", val |-> "running", area |-> 0,
               map |-> map]
    /\ UNCHANGED <<disk, pvh, hdr, start_off, written, lastOk, vgvars>>

\* lines 329-359: the MDA header is read and the place of the record chosen
ReadMdaHeader ==
    /\ pc = "read_hdr"
    /\ LET h == read_mda_header(Area, disk)
       IN IF h.kind # "Ok" THEN Return(h)
          ELSE LET rl == write_rlocn(h.val)
                   start == next_start_off(rl, Area)
                   tail == tail_space_of(start, Area)
               IN IF rl.ignored THEN NextArea
                  ELSE IF start % SECTOR_SIZE # 0
                  THEN Return(Panic("assert_eq start_off % SECTOR_SIZE"))
                  ELSE IF tail % SECTOR_SIZE # 0
                  THEN Return(Panic("assert_eq tail_space % SECTOR_SIZE"))
                  ELSE /\ hdr' = h.val
                       /\ start_off' = start
                       /\ written' = 0
                       /\ pc' = IF tail # 0 THEN "write_first"
                                ELSE IF 0 # Len(Text) THEN "write_second"
                                ELSE "write_hdr"
                       /\ UNCHANGED <<cur, wmap, ret, lastOk>>
    /\ events' = Append(events, Io("read_header", cur, 0, MDA_HEADER_SIZE))
    /\ UNCHANGED <<disk, pvh, before, commits, vgvars>>

\* lines 361-365: the text, up to tail_space bytes of it, is written at start_off
WriteFirst ==
    /\ pc = "write_first"
    /\ LET part == first_part(Text, tail_space_of(start_off, Area))
       IN /\ disk' = file_write(disk, Area.offset + start_off, part)
          /\ written' = Len(part)
          /\ pc' = IF Len(part) # Len(Text) THEN "write_second" ELSE "write_hdr"
          /\ events' = Append(events, Io("write_text", cur, start_off, Len(part)))
    /\ UNCHANGED <<pvh, cur, wmap, hdr, start_off, ret, lastOk, before, commits, vgvars>>

\* lines 370-374: the rest of the text is written behind the header sector
WriteSecond ==
    /\ pc = "write_second"
    /\ disk' = file_write(disk, Area.offset + MDA_HEADER_SIZE,
                          Slice(Text, written, Len(Text)))
    /\ pc' = "write_hdr"
    /\ events' = Append(events, Io("write_text", cur, MDA_HEADER_SIZE, Len(Text) - written))
    /\ UNCHANGED <<pvh, cur, wmap, hdr, start_off, written, ret, lastOk, before, commits, vgvars>>

\* lines 376-385: raw_locn 0 is set and the header sector written
WriteMdaHeader ==
    /\ pc = "write_hdr"
    /\ disk' = write_mda_header(Area,
                                set_rlocn0(hdr, new_rlocn(start_off, Text, write_rlocn(hdr))),
                                disk)
    /\ NextArea
    /\ events' = Append(events, Io("write_header", cur, 0, MDA_HEADER_SIZE))
    /\ UNCHANGED <<pvh, before, commits, vgvars>>

\* the I/O call write_metadata is about to make fails before it transfers
\* a byte, and try! returns the error; a process killed at this point
\* leaves the same device behind
Interrupt ==
    /\ pc \in {"read_hdr", "write_first", "write_second", "write_hdr"}
    \* read_mda_header asserts before its first I/O (line 392)
    /\ pc = "read_hdr" => Area.size > MDA_HEADER_SIZE
    /\ Return(Err(pc))
    /\ UNCHANGED <<disk, pvh, events, before, commits, vgvars>>

\* write_all of the text fails after part of the bytes reached the device
ShortWrite ==
    /\ pc = "write_first"
    /\ LET part == first_part(Text, tail_space_of(start_off, Area))
       IN /\ disk' = file_write(disk, Area.offset + start_off,
                                Slice(part, 0, Len(part) \div 2))
          /\ events' = Append(events, Io("write_text", cur, start_off, Len(part) \div 2))
    /\ Return(Err("short write"))
    /\ UNCHANGED <<pvh, before, commits, vgvars>>

(***************************************************************************)
(* read_metadata: it only reads, one action                                *)
(***************************************************************************)
ReadMetadata ==
    /\ pc = "idle"
    /\ ret' = Ret("read", read_metadata(pvh, disk), 0, NoMap)
    /\ UNCHANGED <<disk, pvh, pc, cur, wmap, hdr, start_off, written, events, lastOk,
                   before, commits, vgvars>>

Next ==
    \/ \E map \in Maps : WriteMetadata(map)
    \/ ReadMdaHeader
    \/ WriteFirst
    \/ WriteSecond
    \/ WriteMdaHeader
    \/ Interrupt
    \/ ShortWrite
    \/ ReadMetadata

Spec == Init /\ [][Next]_vars

(***************************************************************************)
(* Properties                                                              *)
(***************************************************************************)
SameResult(a, b) == a.kind = b.kind /\ a.val = b.val

\* the text of `map` fits the ring of every metadata area of the PV
Fits(map) == \A i \in 1..Len(Areas) : Len(TextOf(map)) <= Areas[i].size - MDA_HEADER_SIZE

\* a write_metadata call has returned r-kind `kind` and nothing ran since
Returned(kind) == pc = "idle" /\ ret.op = "write" /\ ret.kind = kind

\* raw_locn 0 of metadata area j is marked ignored
IgnoredArea(j) ==
    LET h == read_mda_header(Areas[j], disk)
    IN h.kind = "Ok" /\ get_rlocn0(h.val).ignored

\* C1: when write_metadata stops after text bytes (some or all) reached an
\* MDA that held a committed record, and before that MDA's header sector is
\* written, the MDA still reads as the record committed before.
C1_InterruptedWriteKeepsOldRecord ==
    (/\ Returned("Err")
     /\ ret.val \in {"write_second", "write_hdr", "short write"}
     /\ before[ret.area].kind = "Ok")
    => SameResult(read_area(Areas[ret.area], disk), before[ret.area])

\* C2: after write_metadata returned Ok (here: for a text that fits the
\* ring; the claim covers every length), find_in_dev and read_metadata on
\* the device return the textmap submitted.
C2_ReadReturnsLastWritten ==
    (Returned("Ok") /\ Fits(ret.map))
    => LET p == find_in_dev(disk)
       IN /\ p.kind = "Ok"
          /\ SameResult(read_metadata(p.val, disk), Ok(ret.map))

\* C3: every text write of write_metadata lies in [512, area.size) of its
\* metadata area.
C3_TextNeverInHeaderSector ==
    \A k \in 1..Len(events) :
        events[k].io = "write_text"
        => /\ events[k].off >= MDA_HEADER_SIZE
           /\ events[k].off + events[k].len <= Areas[events[k].area].size

\* the next record's start as spec section 4.4 gives it
AdvanceThenWrap(rl, area) ==
    LET start == align_to(rl.offset + rl.size, SECTOR_SIZE)
    IN IF start >= area.size THEN MDA_HEADER_SIZE ELSE start

\* C4: the offset write_metadata records in raw_locn 0 is
\* align_up(off + size, 512) of the raw_locn 0 it found ((512, 0) when there
\* was none), or 512 when that is >= area.size.
C4_OffsetAdvancesThenWraps ==
    [][(pc = "write_hdr" /\ disk' # disk)
       => read_u64(Slice(disk', Area.offset + 40, Area.offset + 48))
          = AdvanceThenWrap(write_rlocn(hdr), Area)]_vars

\* raw_locn 0 of `area` is live, not ignored, and its record spans the wrap
\* point
Wraps(area, dev) ==
    LET h == read_mda_header(area, dev)
    IN /\ h.kind = "Ok"
       /\ LET rl == get_rlocn0(h.val)
          IN rl.present /\ ~rl.ignored /\ rl.offset + rl.size > area.size

\* the record as spec section 4.4 assembles it: area.size - offset bytes at
\* the record's offset, then the rest from behind the header sector
WrapConcat(area, rl, dev) ==
    file_read(dev, area.offset + rl.offset, area.size - rl.offset)
    \o file_read(dev, area.offset + MDA_HEADER_SIZE, rl.size - (area.size - rl.offset))

\* C5: a record that spans the wrap point is read as the concatenation of
\* its two segments, whatever the split, and checked and parsed as that.
C5_WrapReadConcatenates ==
    (pc = "idle" /\ ret.op = "read" /\ Wraps(Areas[1], disk))
    => LET rl == get_rlocn0(read_mda_header(Areas[1], disk).val)
           text == WrapConcat(Areas[1], rl, disk)
       IN SameResult(ret, IF rl.checksum # crc32_calc(text)
                          THEN Err("MDA text checksum failure")
                          ELSE buf_to_textmap(text))

\* the record of the first metadata area, from i on, that reads without an
\* error; an error when there is none
RECURSIVE FirstReadable(_, _, _)
FirstReadable(areas, i, dev) ==
    IF i > Len(areas) THEN Err("No valid metadata found")
    ELSE LET r == read_area(areas[i], dev)
         IN IF r.kind = "Ok" THEN r ELSE FirstReadable(areas, i + 1, dev)

\* C6: on a PV with more than one MDA, read_metadata returns the record of
\* the first MDA that validates and verifies, and fails only when none does.
C6_ReadFallsBackToNextMda ==
    (pc = "idle" /\ ret.op = "read" /\ Len(Areas) > 1)
    => LET c == FirstReadable(Areas, 1, disk)
       IN ret.kind = c.kind /\ (c.kind = "Ok" => ret.val = c.val)

\* C7: in a write_metadata call that returned Ok, every header write has a
\* durability barrier right before it (behind the text writes) and right
\* behind it.
C7_BarriersAroundHeaderWrite ==
    Returned("Ok")
    => \A k \in 1..Len(events) :
           events[k].io = "write_header"
           => /\ k > 1 /\ events[k - 1].io = "sync"
              /\ k < Len(events) /\ events[k + 1].io = "sync"

\* the header sector of metadata area j was written by the current call
Committed(j) == \E k \in 1..Len(events) : events[k] = Io("write_header", j, 0, MDA_HEADER_SIZE)

\* C8: write_metadata returns Ok only when the header of every MDA that is
\* not ignored was written; when it returns an error at MDA i, every MDA
\* before i that is not ignored reads as the new record (stated for texts
\* that fit the ring), and no MDA behind i was written.
C8_PartialFailureLeavesCommittedPrefix ==
    /\ Returned("Ok") => \A j \in 1..Len(Areas) : ~IgnoredArea(j) => Committed(j)
    /\ (Returned("Err") /\ Fits(ret.map))
       => /\ \A j \in 1..(ret.area - 1) :
                 ~IgnoredArea(j)
                 => SameResult(read_area(Areas[j], disk), Ok(ret.map))
          /\ \A k \in 1..Len(events) :
                 events[k].io \in {"write_text", "write_header"}
                 => events[k].area <= ret.area

\* C9: each write_metadata that returns Ok commits a seqno greater than
\* the seqno of the commit before it.
C9_SeqnoStrictlyIncreases ==
    [][(pc = "write_hdr" /\ ret'.op = "write" /\ ret'.kind = "Ok" /\ lastOk # NoMap)
       => lastOk'.seqno > lastOk.seqno]_vars

(***************************************************************************)
(* Label discovery on its own: LabelHeader::from_buf on the first four     *)
(* sectors of a device, each of which is blank or holds a label that is    *)
(* sound, names another sector, or fails its CRC.                          *)
(***************************************************************************)
SectorKinds == {"blank", "label", "wrong_sector", "bad_crc"}

\* sector x of a device, of the given kind
LabelSectorOf ==
    [x \in 0..(LABEL_SCAN_SECTORS - 1) |->
        [k \in SectorKinds |->
            LET lh == [id |-> LABELONE,
                       sector |-> IF k = "wrong_sector"
                                  THEN (x + 1) % LABEL_SCAN_SECTORS ELSE x,
                       offset |-> (IF k = "wrong_sector"
                                   THEN (x + 1) % LABEL_SCAN_SECTORS ELSE x) * SECTOR_SIZE + 32,
                       label |-> LabelType]
                sec == LabelSector(lh, PvHeaderBytes(<<>>, MdaBase))
            IN IF k = "blank" THEN Zeros(SECTOR_SIZE)
               ELSE IF k = "bad_crc"
               \* one byte of the checksummed part changed after the CRC was stored
               THEN Overlay(sec, 100, <<(sec[101] + 1) % 256>>)
               ELSE sec]]

InitLabel ==
    /\ \E k \in [0..(LABEL_SCAN_SECTORS - 1) -> SectorKinds] :
           disk = LabelSectorOf[0][k[0]] \o LabelSectorOf[1][k[1]]
                  \o LabelSectorOf[2][k[2]] \o LabelSectorOf[3][k[3]]
    /\ pvh = [metadata_areas |-> <<>>]
    /\ pc = "idle"
    /\ cur = 0
    /\ wmap = NoMap
    /\ hdr = <<>>
    /\ start_off = 0
    /\ written = 0
    /\ ret = NoRet
    /\ events = <<>>
    /\ lastOk = NoMap
    /\ before = <<>>
    /\ commits = 0
    /\ vg = NoVG
    /\ vgprev = NoVG
    /\ vgcall = NoCall

\* find_in_dev, lines 254-260: the first four sectors are read and scanned
FindLabel ==
    /\ ret.op = "none"
    /\ ret' = Ret("find_label",
                  LabelHeader_from_buf(file_read(disk, 0, LABEL_SCAN_SECTORS * SECTOR_SIZE)),
                  0, NoMap)
    /\ UNCHANGED <<disk, pvh, pc, cur, wmap, hdr, start_off, written, events, lastOk,
                   before, commits, vgvars>>

NextLabel == FindLabel

SpecLabel == InitLabel /\ [][NextLabel]_vars

\* the first of the scanned sectors that starts with "LABELONE" (4 if none)
RECURSIVE FirstLabelSector(_, _)
FirstLabelSector(buf, x) ==
    IF x >= LABEL_SCAN_SECTORS THEN LABEL_SCAN_SECTORS
    ELSE IF Slice(buf, x * SECTOR_SIZE, x * SECTOR_SIZE + 8) = LABELONE THEN x
    ELSE FirstLabelSector(buf, x + 1)

\* C10: a LabelHeader that from_buf returns comes from the first sector that
\* starts with "LABELONE"; its sector field is that sector's index and its
\* crc is the CRC32 of bytes 20..512 of that sector.
C10_LabelSectorAndCrcChecked ==
    (ret.op = "find_label" /\ ret.kind = "Ok")
    => LET x == FirstLabelSector(disk, 0)
       IN /\ x < LABEL_SCAN_SECTORS
          /\ ret.val.sector = x
          /\ ret.val.crc = crc32_calc(Slice(disk, x * SECTOR_SIZE + 20,
                                            x * SECTOR_SIZE + SECTOR_SIZE))

(***************************************************************************)
(* The allocator on its own: new_linear_lv called with any name and any    *)
(* extent count on a VG that starts as one of VGs.                         *)
(***************************************************************************)
InitVG ==
    /\ vg \in VGs
    /\ vgprev = vg
    /\ vgcall = NoCall
    /\ disk = <<>>
    /\ pvh = [metadata_areas |-> <<>>]
    /\ pc = "idle"
    /\ cur = 0
    /\ wmap = NoMap
    /\ hdr = <<>>
    /\ start_off = 0
    /\ written = 0
    /\ ret = NoRet
    /\ events = <<>>
    /\ lastOk = NoMap
    /\ before = <<>>
    /\ commits = 0

\* VG::new_linear_lv(name, extent_size)
NewLinearLv(name, extent_size) ==
    /\ LET r == new_linear_lv(vg, name, extent_size)
       IN /\ vg' = r.vg
          /\ vgcall' = [name |-> name, extent_size |-> extent_size,
                        kind |-> r.res.kind, val |-> r.res.val]
    /\ vgprev' = vg
    /\ UNCHANGED <<disk, pvh, pc, cur, wmap, hdr, start_off, written, ret, events, lastOk,
                   before, commits>>

NextVG == \E name \in LvNames, extent_size \in 0..MaxReq : NewLinearLv(name, extent_size)

SpecVG == InitVG /\ [][NextVG]_vars

\* the extents of PV pvname that used_areas() of v covers
UsedExtents(v, pvname) ==
    LET used_map == used_areas(v)
    IN IF pvname \notin DOMAIN used_map THEN {}
       ELSE {e \in 0..(v.pvs[pvname].pe_count - 1) :
                \E s \in DOMAIN used_map[pvname] : s <= e /\ e < s + used_map[pvname][s]}

\* the maximal runs of extents of [0, pe_count) outside UsedExtents, as
\* start -> length
ComplementOf(v, pvname) ==
    LET pe == v.pvs[pvname].pe_count
        used == UsedExtents(v, pvname)
        starts == {s \in 0..(pe - 1) : s \notin used /\ (s = 0 \/ (s - 1) \in used)}
    IN [s \in starts |->
           (CHOOSE e \in s..pe : (e = pe \/ e \in used) /\ \A x \in s..(e - 1) : x \notin used)
           - s]

\* the free ranges free_areas() gives for a PV (none when the PV has no entry)
FreeOf(free_map, pvname) ==
    IF pvname \in DOMAIN free_map THEN free_map[pvname] ELSE EmptyMap

\* the last call was new_linear_lv and it returned `kind`
Called(kind) == vgcall.kind = kind

\* the stripe of the LV the last call created
NewStripe == vg.lvs[vgcall.name].segments[1].stripes[1]

\* C11: for every PV of the VG, free_areas() holds exactly the complement
\* of used_areas() within [0, pe_count); a PV without a used range has the
\* single range 0 -> pe_count.
C11_FreeIsComplementOfUsed ==
    vg # NoVG
    => LET fa == free_areas(vg)
       IN /\ fa.kind = "Ok"
          /\ \A pvname \in DOMAIN vg.pvs : FreeOf(fa.val, pvname) = ComplementOf(vg, pvname)

\* the ranges of a free map that hold at least n extents
Fitting(free_map, n) ==
    {a \in [pv : DOMAIN free_map, start : 0..(MaxPe + MaxReq)] :
        a.start \in DOMAIN free_map[a.pv] /\ free_map[a.pv][a.start] >= n}

\* the first of them: PVs by ascending name, then ranges by ascending start
FirstFit(free_map, n) ==
    CHOOSE a \in Fitting(free_map, n) :
        \A b \in Fitting(free_map, n) :
            a.pv < b.pv \/ (a.pv = b.pv /\ a.start <= b.start)

\* C12: when new_linear_lv succeeds, the LV is placed on the first range of
\* free_areas() that holds at least n extents, PVs taken by ascending name
\* and ranges by ascending start.
C12_FirstFitInNameThenStartOrder ==
    Called("Ok")
    => LET a == FirstFit(free_areas(vgprev).val, vgcall.extent_size)
       IN NewStripe = <<a.pv, a.start>>

\* some PV of v has n contiguous extents that no LV segment uses
HasFreeRun(v, n) ==
    \E pvname \in DOMAIN v.pvs :
        \E s \in 0..(v.pvs[pvname].pe_count - n) :
            \A e \in s..(s + n - 1) : e \notin UsedExtents(v, pvname)

\* C13: new_linear_lv with a new name succeeds whenever some PV has n
\* contiguous unused extents; in a VG without LVs the LV is placed at
\* extent 0 and used_areas is {0: n}, free_areas {n: pe_count - n}.
C13_SucceedsWhenARunIsFree ==
    (~Called("None") /\ vgcall.name \notin DOMAIN vgprev.lvs
     /\ HasFreeRun(vgprev, vgcall.extent_size))
    => /\ Called("Ok")
       /\ (DOMAIN vgprev.lvs = {} /\ vgcall.extent_size > 0)
          => /\ NewStripe[2] = 0
             /\ used_areas(vg)[NewStripe[1]] = (0 :> vgcall.extent_size)
             /\ LET pe == vg.pvs[NewStripe[1]].pe_count
                IN pe > vgcall.extent_size
                   => FreeOf(free_areas(vg).val, NewStripe[1])
                      = (vgcall.extent_size :> (pe - vgcall.extent_size))

\* C14: when new_linear_lv(name, n) succeeds, extents_in_use() grew by n,
\* the named LV is the one LV added, and its segment's range on the chosen
\* PV lies inside one range of free_areas() of the VG before the call.
C14_SuccessAddsOneLvInsideAFreeRange ==
    Called("Ok")
    => /\ extents_in_use(vg) = extents_in_use(vgprev) + vgcall.extent_size
       /\ vgcall.name \notin DOMAIN vgprev.lvs
       /\ DOMAIN vg.lvs = (DOMAIN vgprev.lvs) \cup {vgcall.name}
       /\ \A n \in DOMAIN vgprev.lvs : vg.lvs[n] = vgprev.lvs[n]
       /\ Len(vg.lvs[vgcall.name].segments) = 1
       /\ vg.lvs[vgcall.name].segments[1].extent_count = vgcall.extent_size
       /\ LET free_map == free_areas(vgprev).val
              pvname == NewStripe[1]
              start == NewStripe[2]
          IN /\ pvname \in DOMAIN free_map
             /\ \E s \in DOMAIN free_map[pvname] :
                    s <= start /\ start + vgcall.extent_size <= s + free_map[pvname][s]

\* a call for two or more extents succeeded on a VG that held LVs
C14_Witness == Called("Ok") /\ vgcall.extent_size >= 2 /\ DOMAIN vgprev.lvs # {}

\* the extents a stripe of a segment covers on its PV
StripeExtents(seg, i) == {e \in 0..(MaxPe + MaxReq) :
                             seg.stripes[i][2] <= e /\ e < seg.stripes[i][2] + seg.extent_count}

\* the extents of PV pvname that LV lv occupies
LvExtents(lv, pvname) ==
    UNION {StripeExtents(lv.segments[k], i) :
              <<k, i>> \in {x \in (1..Len(lv.segments)) \X (1..2) :
                               /\ x[2] <= Len(lv.segments[x[1]].stripes)
                               /\ lv.segments[x[1]].stripes[x[2]][1] = pvname}}

\* C15: the extent ranges of two distinct LVs on the same PV are disjoint.
C15_LvRangesStayDisjoint ==
    \A a, b \in DOMAIN vg.lvs :
        a # b => \A pvname \in PvNames :
                     LvExtents(vg.lvs[a], pvname) \cap LvExtents(vg.lvs[b], pvname) = {}

\* C16: extents_in_use() never exceeds extents(), extents_free() does not
\* underflow, and extents_in_use() + extents_free() = extents().
C16_InUsePlusFreeIsExtents ==
    /\ extents_in_use(vg) <= extents(vg)
    /\ \A f \in extents_free(vg) :
           f.kind = "Ok" /\ extents_in_use(vg) + f.val = extents(vg)

\* C17: every stripe of every LV segment names a PV of the VG and ends
\* inside it: stripe_start + extent_count <= pe_count.
C17_StripesInsideTheirPv ==
    \A n \in DOMAIN vg.lvs :
        \A k \in 1..Len(vg.lvs[n].segments) :
            LET seg == vg.lvs[n].segments[k]
            IN \A i \in 1..Len(seg.stripes) :
                   /\ seg.stripes[i][1] \in DOMAIN vg.pvs
                   /\ seg.stripes[i][2] + seg.extent_count
                      <= vg.pvs[seg.stripes[i][1]].pe_count

\* the last call placed an LV that ends at the last extent of its PV
C17_Witness ==
    /\ Called("Ok")
    /\ vgcall.extent_size > 0
    /\ NewStripe[2] + vgcall.extent_size = vg.pvs[NewStripe[1]].pe_count

AlterPoints == 6

\* what is added to the byte (mod 256)
AlterDeltas == {1, 128}

\* the PVs with one metadata area, as formatted or after one write_metadata
\* of a text that fits the ring
CommittedDevices ==
    LET single == {l \in Layouts : Len(l.sizes) = 1}
    IN {FormatDevice(l) : l \in {x \in single : x.wrapped # {}}}
       \cup {commit_area(find_in_dev(FormatDevice(l)).val.metadata_areas[1], map,
                         FormatDevice(l)) :
                <<l, map>> \in {x \in single \X Maps :
                                   Len(TextOf(x[2])) <= Head(x[1].sizes) - MDA_HEADER_SIZE}}

InitCorrupt ==
    /\ disk \in CommittedDevices
    /\ pvh = find_in_dev(disk).val
    /\ before = <<read_area(pvh.metadata_areas[1], disk)>>
    /\ pc = "idle"
    /\ cur = 0
    /\ wmap = NoMap
    /\ hdr = <<>>
    /\ start_off = 0
    /\ written = 0
    /\ ret = NoRet
    /\ events = <<>>
    /\ lastOk = NoMap
    /\ commits = 0
    /\ vg = NoVG
    /\ vgprev = NoVG
    /\ vgcall = NoCall

\* where byte q of the record of raw_locn rl lies in its metadata area
TextByteAt(area, rl, q) ==
    IF rl.offset + q < area.size THEN rl.offset + q
    ELSE MDA_HEADER_SIZE + (rl.offset + q - area.size)

\* one byte of the committed text is altered, once
AlterByte(k, d) ==
    /\ pc = "idle"
    /\ events = <<>>
    /\ LET area == Areas[1]
           rl == get_rlocn0(read_mda_header(area, disk).val)
           at == TextByteAt(area, rl, ((rl.size - 1) * k) \div (AlterPoints - 1))
           old == disk[area.offset + at + 1]
       IN /\ disk' = file_write(disk, area.offset + at, <<(old + d) % 256>>)
          /\ events' = <<Io("alter", 1, at, 1)>>
    /\ UNCHANGED <<pvh, pc, cur, wmap, hdr, start_off, written, ret, lastOk, before,
                   commits, vgvars>>

NextCorrupt ==
    \/ \E k \in 0..(AlterPoints - 1), d \in AlterDeltas : AlterByte(k, d)
    \/ ReadMetadata

SpecCorrupt == InitCorrupt /\ [][NextCorrupt]_vars

\* a byte of the committed text was altered
Altered == \E k \in 1..Len(events) : events[k].io = "alter"

\* C19: a read_metadata call leaves every byte of the device as it was; the
\* metadata it returns has the CRC32 that raw_locn 0 stores; and on a PV
\* with one MDA in which a byte of the committed text was altered it fails
\* with the checksum error.
C19_ReadVerifiesChecksumAndWritesNothing ==
    [][(ret' # ret /\ ret'.op = "read")
       => /\ disk' = disk
          /\ ret'.kind = "Ok"
             => crc32_calc(TextOf(ret'.val))
                = get_rlocn0(read_mda_header(Areas[1], disk).val).checksum
          /\ (Len(Areas) = 1 /\ Altered)
             => ret'.kind = "Err" /\ ret'.val = "MDA text checksum failure"]_vars

\* a record that read back before its text was altered fails the checksum
C19_Witness ==
    /\ Altered
    /\ before[1].kind = "Ok"
    /\ ret.op = "read"
    /\ ret.kind = "Err"
    /\ ret.val = "MDA text checksum failure"

(***************************************************************************)
(* write_metadata on a PV whose two metadata areas lie back to back on the *)
(* device and are listed in the PV header with the higher offset first,    *)
(* followed by a data area; the textmaps include one whose text is longer  *)
(* than twice the ring of an area.                                         *)
(***************************************************************************)
\* bytes of the data area behind the metadata areas
DataBytes == 2 * SECTOR_SIZE

ReversedAreas ==
    <<[offset |-> MdaBase + 2 * SECTOR_SIZE, size |-> 2 * SECTOR_SIZE],
      [offset |-> MdaBase, size |-> 2 * SECTOR_SIZE]>>

ReversedDevice ==
    LET devsize == MdaBase + 4 * SECTOR_SIZE
        lh == [id |-> LABELONE, sector |-> 1, offset |-> SECTOR_SIZE + 32,
               label |-> LabelType]
    IN Zeros(SECTOR_SIZE)
       \o LabelSector(lh, PvUuid \o write_u64(devsize + DataBytes)
                          \o AreaListBytes(<<[offset |-> devsize, size |-> 0]>>)
                          \o AreaListBytes(ReversedAreas)
                          \o write_u32(0) \o write_u32(0))
       \o Zeros(2 * SECTOR_SIZE)
       \o FreshMdaHeader(ReversedAreas[2], FALSE) \o Zeros(SECTOR_SIZE)
       \o FreshMdaHeader(ReversedAreas[1], FALSE) \o Zeros(SECTOR_SIZE)
       \o Zeros(DataBytes)

LongMaps == [seqno : 1..MaxSeqno, body : {SmallBody, HugeBody}]

InitReversed ==
    /\ disk = ReversedDevice
    /\ pvh = find_in_dev(disk).val
    /\ pc = "idle"
    /\ cur = 0
    /\ wmap = NoMap
    /\ hdr = <<>>
    /\ start_off = 0
    /\ written = 0
    /\ ret = NoRet
    /\ events = <<>>
    /\ lastOk = NoMap
    /\ before = <<>>
    /\ commits = 0
    /\ vg = NoVG
    /\ vgprev = NoVG
    /\ vgcall = NoCall

NextReversed ==
    \/ \E map \in LongMaps : WriteMetadata(map)
    \/ ReadMdaHeader
    \/ WriteFirst
    \/ WriteSecond
    \/ WriteMdaHeader
    \/ Interrupt
    \/ ShortWrite
    \/ ReadMetadata

SpecReversed == InitReversed /\ [][NextReversed]_vars

\* C20: after a write_metadata that returned Ok, the header sector of every
\* MDA it committed passes read_mda_header (CRC over bytes 4..512, magic,
\* version 1); and a header write changes no byte of the sector but the
\* CRC (0..4) and raw_locn 0 (40..64).
C20_CommittedHeadersStayValid ==
    /\ [](Returned("Ok")
          => \A j \in 1..Len(Areas) :
                 Committed(j) => read_mda_header(Areas[j], disk).kind = "Ok")
    /\ [][(pc = "write_hdr" /\ disk' # disk)
          => LET sector == Slice(disk', Area.offset, Area.offset + MDA_HEADER_SIZE)
             IN /\ Slice(sector, 4, 40) = Slice(hdr, 4, 40)
                /\ Slice(sector, 64, MDA_HEADER_SIZE) = Slice(hdr, 64, MDA_HEADER_SIZE)]_vars

\* C21: the LV a successful new_linear_lv creates has exactly one segment,
\* of type "striped", with extent_count n and exactly one stripe (the
\* chosen PV and start); the segment's start_extent, its first extent
\* within the LV, is 0 wherever on the PV the LV lies.
C21_NewLvIsOneSegmentFromExtentZero ==
    Called("Ok")
    => LET segments == vg.lvs[vgcall.name].segments
       IN /\ Len(segments) = 1
          /\ segments[1].ty = "striped"
          /\ segments[1].extent_count = vgcall.extent_size
          /\ Len(segments[1].stripes) = 1
          /\ LET fm == free_areas(vgprev).val
                 pvname == segments[1].stripes[1][1]
             IN pvname \in DOMAIN fm /\ segments[1].stripes[1][2] \in DOMAIN fm[pvname]
          /\ segments[1].start_extent = 0

(***************************************************************************)
(* read_metadata and write_metadata on PVs whose header lists a metadata   *)
(* area of a size the engine does not expect: one header sector and no     *)
(* ring, or a size that is no multiple of the sector size.  The MDA header *)
(* on the device is valid.                                                 *)
(***************************************************************************)
\* a size that is no multiple of SECTOR_SIZE
OddSize == 1000

AreaSizeLayouts ==
    { [sizes |-> <<SECTOR_SIZE>>, ign |-> {}, wrapped |-> {}],
      [sizes |-> <<OddSize>>, ign |-> {}, wrapped |-> {}],
      [sizes |-> <<2 * SECTOR_SIZE>>, ign |-> {}, wrapped |-> {}] }

InitAreaSize ==
    /\ \E l \in AreaSizeLayouts : disk = FormatDevice(l)
    /\ pvh = find_in_dev(disk).val
    /\ pc = "idle"
    /\ cur = 0
    /\ wmap = NoMap
    /\ hdr = <<>>
    /\ start_off = 0
    /\ written = 0
    /\ ret = NoRet
    /\ events = <<>>
    /\ lastOk = NoMap
    /\ before = <<>>
    /\ commits = 0
    /\ vg = NoVG
    /\ vgprev = NoVG
    /\ vgcall = NoCall

SpecAreaSize == InitAreaSize /\ [][Next]_vars

\* the size of a metadata area is not one the engine can work with
Malformed(area) == area.size <= MDA_HEADER_SIZE \/ area.size % SECTOR_SIZE # 0

\* C22: no read_metadata or write_metadata call ends in a failed assertion;
\* on a PV with a metadata area of a malformed size the call returns an
\* error, and write_metadata has written nothing.
C22_AssertionsNeverFail ==
    /\ ret.kind # "Panic"
    /\ (pc = "idle" /\ ret.op \in {"read", "write"}
        /\ \E j \in 1..Len(Areas) : Malformed(Areas[j]))
       => /\ ret.kind = "Err"
          /\ ret.op = "write"
             => \A k \in 1..Len(events) :
                    events[k].io \notin {"write_text", "write_header"}

====
